---- MODULE Spec2Model ----
(***************************************************************************)
(* A model of two components of uigen-vue:                                 *)
(*   - VirtualFileSystem (src/unnamed/part_002, i.e. src/lib/file-system), *)
(*     an in-memory tree of file and directory objects held in two Maps;   *)
(*   - AIProviderManager (src/server/lib/ai/provider-manager.ts).          *)
(*                                                                         *)
(* JavaScript objects are shared by reference: a VirtualFile is at once a  *)
(* value of state.files, an element of its parent's children array and an  *)
(* element of every snapshot taken while it existed.  The model therefore  *)
(* keeps a heap (id -> object) and lets the Maps, the children arrays and   *)
(* the snapshots hold ids.  A Map is a sequence of keys in insertion       *)
(* order, which is the order Array.from(map.values()).find(...) scans.     *)
(* A path is a sequence of one-character strings.                          *)
(***************************************************************************)
EXTENDS Integers, Sequences, FiniteSets, TLC

VARIABLES
  heap,        \* id -> object (VirtualFile | VirtualDirectory), never shrinks
  state,       \* FileSystemState: files, directories, operations, rootId
  snapshots,   \* Map<string, FileSystemSnapshot>, key = index
  watchers,    \* Map<string, FileSystemWatcher> in insertion order, and the
               \* number of watchers ever added
  delivered,   \* the watcher callbacks run by the last call, in order
  last,        \* the last call of the public API and its outcome
  taken,       \* history: what readFile returned when each snapshot was taken
  found,       \* the options and the result of searchFiles, when it was the last call
  tool,        \* the call and the result of str_replace_editor, when it was the last call
  providers,       \* Map<string, BaseAIProvider>: the configs in insertion order
  providerStatus,  \* Map<string, AIProviderStatus>: id -> status
  defaultProvider, \* string | null ("" is null)
  calls,           \* the generateContent / generateContentStream calls made
  lastRegister,    \* how the registerProvider call of the last step ended
  health,          \* the performHealthChecks call made last
  db,              \* the database: its projects and its File table
  posts,           \* the POST /api/files requests
  resp             \* the request answered in the last step and its response

vfsVars == <<heap, state, snapshots, watchers, delivered, last, taken, found, tool>>

aiVars == <<providers, providerStatus, defaultProvider, calls, lastRegister, health>>
httpVars == <<db, posts, resp>>

-----------------------------------------------------------------------------
(* Bounds of the model *)

MaxOps == 2          \* length of the operation history explored
MaxDeep == 3         \* the same, where only successful calls are followed
MaxFileOps == 4      \* the same, for the calls on files alone
MaxSnapshots == 1    \* snapshots taken in one run
MaxWatchers == 1     \* watchers registered in one run
MaxSearchOps == 4    \* length of the operation history where files are searched

\* private maxOperationHistory = 1000
maxOperationHistory == 1000

-----------------------------------------------------------------------------
(* Paths and contents the calls are made with *)

Slash == <<"/">>
PA == <<"/", "a">>
PB == <<"/", "/", "b">>         \* '//b': every call normalizes it to '/b'
PAB == <<"/", "a", "/", "b">>
PRel == <<"a", "b">>            \* written without a leading '/', as 'test.vue'

Paths == {Slash, PA, PB, PAB, PRel}
FilePaths == {PA, PB, PAB}
Contents == {"c1", "c2"}

\* What searchFiles is tried on: '/js' is a file named 'js'
PJs == <<"/", "j", "s">>
SearchPaths == {PB, PAB, PRel, PJs}
Queries == {<<"b">>, <<"B">>, <<"a", "b">>, <<>>}
TypeFilters == {<<>>, <<{<<"t", "s">>}>>, <<{<<"j", "s">>}>>}

EventTypes ==
  {"file_created", "file_updated", "file_deleted", "file_moved",
   "directory_created", "directory_deleted", "directory_moved"}

\* What the watchers are registered with
WatchPaths == {Slash, PA}
WatchEvents == {EventTypes, {"file_created"}}

-----------------------------------------------------------------------------
(* String helpers *)

RECURSIVE Collapse(_)
\* path.replace(/\/+/g, '/')
Collapse(s) ==
  IF Len(s) <= 1 THEN s
  ELSE IF s[1] = "/" /\ s[2] = "/" THEN Collapse(Tail(s))
  ELSE <<s[1]>> \o Collapse(Tail(s))

\* path.replace(/\/+/g, '/').replace(/\/$/, '') || '/'
normalizePath(path) ==
  LET a == Collapse(path)
      b == IF Len(a) > 0 /\ a[Len(a)] = "/" THEN SubSeq(a, 1, Len(a) - 1) ELSE a
  IN IF b = <<>> THEN Slash ELSE b

\* String.prototype.lastIndexOf('/'), 1-based; 0 when there is none (JS: -1)
LastSlash(s) ==
  LET I == {i \in 1..Len(s) : s[i] = "/"}
  IN IF I = {} THEN 0 ELSE CHOOSE i \in I : \A j \in I : j <= i

\* String.prototype.slice(n) for n >= 0
SliceFrom(s, n) == IF n >= Len(s) THEN <<>> ELSE SubSeq(s, n + 1, Len(s))

\* String.prototype.startsWith
StartsWith(s, pre) == Len(pre) <= Len(s) /\ SubSeq(s, 1, Len(pre)) = pre

parsePath(path) ==
  LET np == normalizePath(path)
      k == LastSlash(np)
  IN IF k = 1
       THEN [directory |-> Slash, filename |-> SliceFrom(np, 1)]
     ELSE IF k = 0
       \* lastIndexOf = -1: slice(0, -1) drops the last character, slice(0) is all
       THEN [directory |-> SubSeq(np, 1, Len(np) - 1), filename |-> np]
     ELSE [directory |-> SubSeq(np, 1, k - 1), filename |-> SliceFrom(np, k)]


-----------------------------------------------------------------------------
(* The file system's objects.  A "world" W is the mutable memory a call     *)
(* works on: the heap, this.state, the events emitted so far (evs), the    *)
(* value returned (ret; res is "false" when the method returned false) and *)
(* the error thrown (err, "" when none).                                   *)

None == 0   \* undefined

NewFile(name, path, content, parentId) ==
  [isDir |-> FALSE, name |-> name, path |-> path, content |-> content,
   parentId |-> parentId, children |-> <<>>]

NewDirectory(name, path, parentId) ==
  [isDir |-> TRUE, name |-> name, path |-> path, content |-> "",
   parentId |-> parentId, children |-> <<>>]

\* const rootDirectory = { id: rootId, name: 'root', path: '/', children: [] }
initializeState ==
  [heap  |-> <<NewDirectory(<<"r", "o", "o", "t">>, Slash, None)>>,
   state |-> [files |-> <<>>, directories |-> <<1>>, operations |-> <<>>,
              rootId |-> 1]]

World(h, st) ==
  [heap |-> h, files |-> st.files, directories |-> st.directories,
   operations |-> st.operations, rootId |-> st.rootId,
   evs |-> <<>>, ret |-> None, res |-> "ok", err |-> ""]

StateOf(W) ==
  [files |-> W.files, directories |-> W.directories,
   operations |-> W.operations, rootId |-> W.rootId]

Throw(W, msg) == [W EXCEPT !.err = msg]
Return(W, v) == [W EXCEPT !.ret = v, !.res = "ok"]
\* return false
ReturnFalse(W) == [W EXCEPT !.res = "false"]

InSeq(x, ids) == \E i \in 1..Len(ids) : ids[i] = x

\* Array.from(map.values()).find(x => x.path === np) over the ids of a Map in
\* insertion order: the first object with that path, or undefined
FirstWithPath(h, ids, np) ==
  LET I == {i \in 1..Len(ids) : h[ids[i]].path = np}
  IN IF I = {} THEN None ELSE ids[CHOOSE i \in I : \A j \in I : i <= j]

\* array.filter(x => x.id !== id), and Map.delete(id)
Without(ids, id) == SelectSeq(ids, LAMBDA x : x # id)

getFileByPath(W, path) == FirstWithPath(W.heap, W.files, normalizePath(path))

getDirectoryByPath(W, path) ==
  FirstWithPath(W.heap, W.directories, normalizePath(path))

recordOperation(W, operation) ==
  LET ops == Append(W.operations, operation)
  IN [W EXCEPT !.operations =
        IF Len(ops) > maxOperationHistory
          THEN SubSeq(ops, Len(ops) - maxOperationHistory + 1, Len(ops))
          ELSE ops]

Op(type, path, content, newPath) ==
  [type |-> type, path |-> path, content |-> content, newPath |-> newPath]

Event(type, path, newPath, obj) ==
  [type |-> type, path |-> path, newPath |-> newPath, obj |-> obj]

\* emitEvent runs the matching callbacks at once; the world keeps the event and
\* Deliver (below) computes the callbacks from the registered watchers.
\* sees is what the file system holds at event.path when the callbacks run: a
\* callback that reads the path gets this
emitEvent(W, event) ==
  [W EXCEPT !.evs = Append(@,
     [type |-> event.type, path |-> event.path, newPath |-> event.newPath,
      obj |-> event.obj,
      sees |-> [file |-> getFileByPath(W, event.path),
                dir |-> getDirectoryByPath(W, event.path),
                content |-> IF getFileByPath(W, event.path) = None THEN ""
                            ELSE W.heap[getFileByPath(W, event.path)].content]])]

\* parentDir.children = parentDir.children.filter(child => child.id !== id),
\* guarded by "if (x.parentId) { const p = directories.get(x.parentId); if (p)"
RemoveFromParent(W, id) ==
  LET pid == W.heap[id].parentId
  IN IF pid # None /\ InSeq(pid, W.directories)
       THEN [W EXCEPT !.heap[pid].children = Without(@, id)]
       ELSE W

\* The second half of createDirectory, W being the world ensureDirectoryExists
\* left: the new directory is put into the Map and into its parent's children
AddDirectory(W, np, dirName) ==
  IF W.err # "" THEN W
  ELSE
    LET parentDir == W.ret
        id == Len(W.heap) + 1
        W2 == [W EXCEPT
                 !.heap = Append(W.heap, NewDirectory(dirName, np, parentDir)),
                 !.directories = Append(@, id)]
        W3 == [W2 EXCEPT !.heap[parentDir].children = Append(@, id)]
        W4 == recordOperation(W3, Op("create_directory", np, "", <<>>))
        W5 == emitEvent(W4, Event("directory_created", np, <<>>, id))
    IN Return(W5, id)

\* The second half of createFile, likewise
AddFile(W, np, filename, content) ==
  IF W.err # "" THEN W
  ELSE
    LET parentDir == W.ret
        id == Len(W.heap) + 1
        W2 == [W EXCEPT
                 !.heap = Append(W.heap, NewFile(filename, np, content, parentDir)),
                 !.files = Append(@, id)]
        W3 == [W2 EXCEPT !.heap[parentDir].children = Append(@, id)]
        W4 == recordOperation(W3, Op("create_file", np, content, <<>>))
        W5 == emitEvent(W4, Event("file_created", np, <<>>, id))
    IN Return(W5, id)

RECURSIVE createDirectory(_, _), ensureDirectoryExists(_, _)

\* The world after createDirectory(path); ret is the new directory
createDirectory(W, path) ==
  IF getDirectoryByPath(W, normalizePath(path)) # None
    THEN Throw(W, "Directory already exists")
    ELSE AddDirectory(
           ensureDirectoryExists(W, parsePath(normalizePath(path)).directory),
           normalizePath(path), parsePath(normalizePath(path)).filename)

\* createDirectory(normalizedPath) after the parent was ensured; an error of
\* the parent's call passes through
ThenCreateDirectory(W, np) == IF W.err # "" THEN W ELSE createDirectory(W, np)

\* The world after ensureDirectoryExists(path); ret is the directory.
\* When no directory has the path '/', ensureDirectoryExists('/') calls
\* createDirectory('/'), which calls ensureDirectoryExists('/') again before it
\* changes anything: the recursion has no end and the call throws RangeError.
ensureDirectoryExists(W, path) ==
  IF getDirectoryByPath(W, path) # None
    THEN Return(W, getDirectoryByPath(W, path))
  ELSE IF parsePath(normalizePath(path)).directory = normalizePath(path)
    THEN Throw(W, "RangeError")
  ELSE ThenCreateDirectory(
         ensureDirectoryExists(W, parsePath(normalizePath(path)).directory),
         normalizePath(path))

createFile(W, path, content) ==
  IF getFileByPath(W, normalizePath(path)) # None
    THEN Throw(W, "File already exists")
    ELSE AddFile(
           ensureDirectoryExists(W, parsePath(normalizePath(path)).directory),
           normalizePath(path), parsePath(normalizePath(path)).filename, content)

\* ret is the content; throws when no file has the path
readFile(W, path) ==
  LET file == getFileByPath(W, path)
  IN IF file = None THEN Throw(W, "File not found")
     ELSE Return(W, W.heap[file].content)

updateFile(W, path, content) ==
  LET file == getFileByPath(W, path)
  IN IF file = None THEN Throw(W, "File not found")
     ELSE
       LET W1 == [W EXCEPT !.heap[file].content = content]
           W2 == recordOperation(W1, Op("update_file", path, content, <<>>))
           W3 == emitEvent(W2, Event("file_updated", path, <<>>, file))
       IN Return(W3, file)

deleteFile(W, path) ==
  LET file == getFileByPath(W, path)
  IN IF file = None THEN ReturnFalse(W)
     ELSE
       LET W1 == RemoveFromParent(W, file)
           W2 == [W1 EXCEPT !.files = Without(@, file)]
           W3 == recordOperation(W2, Op("delete_file", path, "", <<>>))
           W4 == emitEvent(W3, Event("file_deleted", path, <<>>, file))
       IN Return(W4, TRUE)

RECURSIVE deleteDirectory(_, _, _, _), deleteChildren(_, _, _)

\* The world after deleteDirectory(path, recursive).  active is the set of
\* directories whose own deleteDirectory call is still on the call stack: a
\* directory is removed from state.directories only after the loop over its
\* children, so a child path that resolves to a directory of the stack starts
\* the same calls again without end, and the call throws RangeError.
deleteDirectory(W, path, recursive, active) ==
  LET directory == getDirectoryByPath(W, path)
  IN IF directory = None THEN ReturnFalse(W)
     ELSE IF directory = W.rootId THEN Throw(W, "Cannot delete root directory")
     ELSE IF ~recursive /\ W.heap[directory].children # <<>>
       THEN Throw(W, "Directory is not empty")
     ELSE IF directory \in active THEN Throw(W, "RangeError")
     ELSE
       LET W1 == IF recursive
                   THEN deleteChildren(W, W.heap[directory].children,
                                       active \cup {directory})
                   ELSE W
       IN IF W1.err # "" THEN W1
          ELSE
            LET W2 == RemoveFromParent(W1, directory)
                W3 == [W2 EXCEPT !.directories = Without(@, directory)]
                W4 == recordOperation(W3, Op("delete_directory", path, "", <<>>))
                W5 == emitEvent(W4, Event("directory_deleted", path, <<>>, directory))
            IN Return(W5, TRUE)

\* for (const child of directory.children): the array the loop started on
deleteChildren(W, children, active) ==
  IF children = <<>> THEN W
  ELSE
    LET child == Head(children)
        W1 == IF W.heap[child].isDir
                THEN deleteDirectory(W, W.heap[child].path, TRUE, active)
                ELSE deleteFile(W, W.heap[child].path)
    IN IF W1.err # "" THEN W1 ELSE deleteChildren(W1, Tail(children), active)

RECURSIVE updateChildrenPaths(_, _, _, _, _), updateChildPaths(_, _, _, _, _)

\* The world after updateChildrenPaths(directory, oldBasePath, newBasePath).
\* active is the set of directories on the call stack: a directory that is
\* among its own descendants is entered again without end (RangeError).
updateChildrenPaths(W, directory, oldBasePath, newBasePath, active) ==
  IF directory \in active THEN Throw(W, "RangeError")
  ELSE updateChildPaths(W, W.heap[directory].children, oldBasePath, newBasePath,
                        active \cup {directory})

updateChildPaths(W, children, oldBasePath, newBasePath, active) ==
  IF children = <<>> THEN W
  ELSE
    LET child == Head(children)
        relativePath == SliceFrom(W.heap[child].path, Len(oldBasePath))
        W1 == [W EXCEPT !.heap[child].path = newBasePath \o relativePath]
        W2 == IF W1.heap[child].isDir
                THEN updateChildrenPaths(W1, child, oldBasePath, newBasePath, active)
                ELSE W1
    IN IF W2.err # "" THEN W2
       ELSE updateChildPaths(W2, Tail(children), oldBasePath, newBasePath, active)

\* The second half of moveFile, W being the world ensureDirectoryExists left
RelocateFile(W, file, normalizedTarget) ==
  IF W.err # "" THEN W
  ELSE
    LET newParentDir == W.ret
        W2 == RemoveFromParent(W, file)
        oldPath == W2.heap[file].path
        W3 == [W2 EXCEPT !.heap[file].path = normalizedTarget,
                         !.heap[file].parentId = newParentDir]
        W4 == [W3 EXCEPT !.heap[newParentDir].children = Append(@, file)]
        W5 == recordOperation(W4, Op("move_file", oldPath, "", normalizedTarget))
        W6 == emitEvent(W5, Event("file_moved", oldPath, normalizedTarget, file))
    IN Return(W6, TRUE)

moveFile(W, file, targetPath) ==
  RelocateFile(
    ensureDirectoryExists(W, parsePath(normalizePath(targetPath)).directory),
    file, normalizePath(targetPath))

\* The end of moveDirectory, W being the world updateChildrenPaths left
AttachDirectory(W, directory, newParentDir, oldPath, normalizedTarget) ==
  IF W.err # "" THEN W
  ELSE
    LET W5 == [W EXCEPT !.heap[newParentDir].children = Append(@, directory)]
        W6 == recordOperation(W5, Op("move_directory", oldPath, "", normalizedTarget))
        W7 == emitEvent(W6, Event("directory_moved", oldPath, normalizedTarget, directory))
    IN Return(W7, TRUE)

\* moveDirectory from "if (directory.parentId)" on, W being the world
\* ensureDirectoryExists left
RelocateDirectory(W, directory, normalizedTarget) ==
  IF W.err # "" THEN W
  ELSE
    LET newParentDir == W.ret
        W2 == RemoveFromParent(W, directory)
        oldPath == W2.heap[directory].path
        W3 == [W2 EXCEPT !.heap[directory].path = normalizedTarget,
                         !.heap[directory].parentId = newParentDir]
    IN AttachDirectory(
         updateChildrenPaths(W3, directory, oldPath, normalizedTarget, {}),
         directory, newParentDir, oldPath, normalizedTarget)

moveDirectory(W, directory, targetPath) ==
  RelocateDirectory(
    ensureDirectoryExists(W, parsePath(normalizePath(targetPath)).directory),
    directory, normalizePath(targetPath))

\* A variant of move that creates the target's directory before it looks for
\* the source
moveEnsuringTarget(W, sourcePath, targetPath) ==
  LET normalizedSource == normalizePath(sourcePath)
      normalizedTarget == normalizePath(targetPath)
      sourceFile == getFileByPath(W, normalizedSource)
      sourceDir == getDirectoryByPath(W, normalizedSource)
      W1 == ensureDirectoryExists(W, parsePath(normalizedTarget).directory)
  IN IF sourceFile = None /\ sourceDir = None
       THEN Throw([W1 EXCEPT !.err = ""], "Source not found")
     ELSE IF sourceFile # None THEN moveFile(W, sourceFile, normalizedTarget)
     ELSE moveDirectory(W, sourceDir, normalizedTarget)

move(W, sourcePath, targetPath) ==
  LET normalizedSource == normalizePath(sourcePath)
      normalizedTarget == normalizePath(targetPath)
      sourceFile == getFileByPath(W, normalizedSource)
      sourceDir == getDirectoryByPath(W, normalizedSource)
  IN IF sourceFile = None /\ sourceDir = None THEN Throw(W, "Source not found")
     ELSE IF sourceFile # None THEN moveFile(W, sourceFile, normalizedTarget)
     ELSE moveDirectory(W, sourceDir, normalizedTarget)

copyFile(W, sourcePath, targetPath) ==
  LET sourceFile == getFileByPath(W, sourcePath)
  IN IF sourceFile = None THEN Throw(W, "Source file not found")
     ELSE createFile(W, targetPath, W.heap[sourceFile].content)

listDirectory(W, path) ==
  LET directory == getDirectoryByPath(W, path)
  IN IF directory = None THEN Throw(W, "Directory not found")
     ELSE Return(W, W.heap[directory].children)

-----------------------------------------------------------------------------
(* searchFiles.  The search uses one RegExp object with the flag g for all  *)
(* the files: RegExp.prototype.test starts at the object's lastIndex and    *)
(* leaves it at the end of the match, or at 0 when there is none.           *)

\* maxResults = 100
DefaultMaxResults == 100

\* The characters' lower case (the flag i)
Lower(ch) == IF ch = "A" THEN "a" ELSE IF ch = "B" THEN "b" ELSE ch

LowerCase(str) == [i \in 1..Len(str) |-> Lower(str[i])]

\* The query occurs in str at the 0-based index k
OccursAt(str, query, k, caseSensitive) ==
  /\ k + Len(query) <= Len(str)
  /\ IF caseSensitive
       THEN SubSeq(str, k + 1, k + Len(query)) = query
       ELSE LowerCase(SubSeq(str, k + 1, k + Len(query))) = LowerCase(query)

\* searchRegex.test(str) with searchRegex.lastIndex = lastIndex: whether it
\* matches, and the lastIndex it leaves
test(str, query, lastIndex, caseSensitive) ==
  LET K == {k \in lastIndex..Len(str) : OccursAt(str, query, k, caseSensitive)}
  IN IF K = {} THEN [matches |-> FALSE, lastIndex |-> 0]
     ELSE [matches |-> TRUE,
           lastIndex |-> (CHOOSE k \in K : \A j \in K : k <= j) + Len(query)]

FileTypes ==
  {<<"v", "u", "e">>, <<"t", "s">>, <<"j", "s">>, <<"c", "s", "s">>,
   <<"h", "t", "m", "l">>, <<"j", "s", "o", "n">>, <<"m", "d">>}

\* filename.split('.').pop()?.toLowerCase(), then the switch: the type is the
\* extension when it is a known one and 'ts' otherwise
inferFileType(filename) ==
  LET dots == {i \in 1..Len(filename) : filename[i] = "."}
      from == IF dots = {} THEN 0 ELSE CHOOSE i \in dots : \A j \in dots : j <= i
      extension == LowerCase(SliceFrom(filename, from))
  IN IF extension \in FileTypes THEN extension ELSE <<"t", "s">>

RECURSIVE InsertByScore(_, _)
InsertByScore(sorted, x) ==
  IF sorted = <<>> THEN <<x>>
  ELSE IF Head(sorted).score - x.score >= 0
    THEN <<Head(sorted)>> \o InsertByScore(Tail(sorted), x)
    ELSE <<x>> \o sorted

RECURSIVE sortByScore(_)
\* results.sort((a, b) => b.score - a.score)
sortByScore(results) ==
  IF results = <<>> THEN <<>>
  ELSE InsertByScore(sortByScore(SubSeq(results, 1, Len(results) - 1)),
                     results[Len(results)])

RECURSIVE searchLoop(_, _, _, _, _)
\* for (const file of this.state.files.values()), with includeContent false:
\* files are the files still to visit, results the results so far
searchLoop(W, files, options, lastIndex, results) ==
  IF files = <<>> THEN results
  ELSE IF options.fileTypes # <<>>
          /\ inferFileType(W.heap[Head(files)].name) \notin options.fileTypes[1]
    THEN searchLoop(W, Tail(files), options, lastIndex, results)
  ELSE
    LET t == test(W.heap[Head(files)].name, options.query, lastIndex,
                  options.caseSensitive)
        results2 == IF t.matches
                      THEN Append(results, [file |-> Head(files), score |-> 10])
                      ELSE results
    IN IF Len(results2) >= options.maxResults THEN results2
       ELSE searchLoop(W, Tail(files), options, t.lastIndex, results2)

\* The results of searchFiles(options) with useRegex and includeContent false
searchFiles(W, options) == sortByScore(searchLoop(W, W.files, options, 0, <<>>))

NoSearch == [searched |-> FALSE]

\* files: Array.from(this.state.files.values()): a new array of the same objects
createSnapshot(W) ==
  [files |-> W.files, directories |-> W.directories]

\* ret is true; throws when the id names no snapshot
restoreSnapshot(W, snaps, snapshotId) ==
  IF snapshotId \notin 1..Len(snaps) THEN Throw(W, "Snapshot not found")
  ELSE
    LET snapshot == snaps[snapshotId]
        W1 == [W EXCEPT !.files = snapshot.files,
                        !.directories = snapshot.directories]
        rootDir == FirstWithPath(W1.heap, W1.directories, Slash)
        W2 == IF rootDir # None THEN [W1 EXCEPT !.rootId = rootDir] ELSE W1
    IN Return(W2, TRUE)

-----------------------------------------------------------------------------
(* Watchers *)

\* const isPathMatch = watcher.recursive ? event.path.startsWith(watcher.path)
\*   : event.path === watcher.path || event.path.startsWith(watcher.path + '/')
isPathMatch(watcher, event) ==
  IF watcher.recursive
    THEN StartsWith(event.path, watcher.path)
    ELSE event.path = watcher.path \/ StartsWith(event.path, watcher.path \o Slash)

isEventMatch(watcher, event) == event.type \in watcher.events

RECURSIVE Deliver(_, _)
\* The callbacks emitEvent runs for the events of one call: for each event in
\* turn, every matching watcher in the Map's order
Deliver(ws, evs) ==
  IF evs = <<>> THEN <<>>
  ELSE
    LET event == Head(evs)
        hit == SelectSeq(ws, LAMBDA w : isPathMatch(w, event) /\ isEventMatch(w, event))
    IN [i \in 1..Len(hit) |->
          [watcher |-> hit[i].id, type |-> event.type, path |-> event.path,
           sees |-> event.sees]]
       \o Deliver(ws, Tail(evs))

-----------------------------------------------------------------------------
(* The calls of the public API.  Each action is one call: it runs the       *)
(* method on the current memory and stores what the method left behind,    *)
(* whether it returned or threw.                                           *)

NoTool == [called |-> FALSE]

\* n is the snapshot id or watcher id of the call, 0 when it has none
Call(op, p, q, c, rec, n) ==
  [op |-> op, p |-> p, q |-> q, c |-> c, rec |-> rec, n |-> n]

Outcome(call, W) ==
  [op |-> call.op, p |-> call.p, q |-> call.q, c |-> call.c, rec |-> call.rec,
   n |-> call.n,
   res |-> IF W.err # "" THEN W.err ELSE W.res]

\* A run is followed up to its first call that throws or returns false: the
\* outcome of that call is part of the run, what is called after it is not.
Running == last.res = "ok"

\* A RangeError leaves the memory wherever the recursion had got to when the
\* stack ran out; that memory is not modelled.
Finish(call, W) ==
  /\ Running
  /\ UNCHANGED <<aiVars, httpVars>>
  /\ found' = NoSearch
  /\ tool' = NoTool
  /\ last' = Outcome(call, W)
  /\ IF W.err = "RangeError"
       THEN UNCHANGED <<heap, state, delivered>>
       ELSE /\ heap' = W.heap
            /\ state' = StateOf(W)
            /\ delivered' = Deliver(watchers.map, W.evs)

Now == World(heap, state)

CreateFile(p, c) ==
  /\ Finish(Call("createFile", p, <<>>, c, FALSE, 0), createFile(Now, p, c))
  /\ UNCHANGED <<snapshots, watchers, taken>>

CreateDirectory(p) ==
  /\ Finish(Call("createDirectory", p, <<>>, "", FALSE, 0), createDirectory(Now, p))
  /\ UNCHANGED <<snapshots, watchers, taken>>

ReadFile(p) ==
  /\ Finish(Call("readFile", p, <<>>, "", FALSE, 0), readFile(Now, p))
  /\ UNCHANGED <<snapshots, watchers, taken>>

UpdateFile(p, c) ==
  /\ Finish(Call("updateFile", p, <<>>, c, FALSE, 0), updateFile(Now, p, c))
  /\ UNCHANGED <<snapshots, watchers, taken>>

DeleteFile(p) ==
  /\ Finish(Call("deleteFile", p, <<>>, "", FALSE, 0), deleteFile(Now, p))
  /\ UNCHANGED <<snapshots, watchers, taken>>

DeleteDirectory(p, recursive) ==
  /\ Finish(Call("deleteDirectory", p, <<>>, "", recursive, 0),
            deleteDirectory(Now, p, recursive, {}))
  /\ UNCHANGED <<snapshots, watchers, taken>>

Move(p, q) ==
  /\ Finish(Call("move", p, q, "", FALSE, 0), move(Now, p, q))
  /\ UNCHANGED <<snapshots, watchers, taken>>

CopyFile(p, q) ==
  /\ Finish(Call("copyFile", p, q, "", FALSE, 0), copyFile(Now, p, q))
  /\ UNCHANGED <<snapshots, watchers, taken>>

\* fileTypes is <<>> when the option is missing, <<set of types>> otherwise
SearchFiles(query, fileTypes, caseSensitive, maxResults) ==
  /\ Running
  /\ found' = [searched |-> TRUE,
               options |-> [query |-> query, fileTypes |-> fileTypes,
                            caseSensitive |-> caseSensitive,
                            maxResults |-> maxResults],
               results |-> searchFiles(Now, [query |-> query, fileTypes |-> fileTypes,
                                             caseSensitive |-> caseSensitive,
                                             maxResults |-> maxResults])]
  /\ last' = [op |-> "searchFiles", p |-> query, q |-> <<>>, c |-> "",
              rec |-> caseSensitive, n |-> maxResults, res |-> "ok"]
  /\ delivered' = <<>>
  /\ tool' = NoTool
  /\ UNCHANGED <<heap, state, snapshots, watchers, taken, aiVars, httpVars>>

NoCall(op, n) ==
  [op |-> op, p |-> <<>>, q |-> <<>>, c |-> "", rec |-> FALSE, n |-> n,
   res |-> "ok"]

\* What readFile returns for every path that has a file: the pairs
\* <<path, content>>; for any other path readFile throws 'File not found'
ReadView(W) ==
  {<<W.heap[W.files[i]].path, readFile(W, W.heap[W.files[i]].path).ret>> :
     i \in 1..Len(W.files)}

CreateSnapshot ==
  /\ Running
  /\ UNCHANGED <<aiVars, httpVars>>
  /\ found' = NoSearch
  /\ tool' = NoTool
  /\ Len(snapshots) < MaxSnapshots
  /\ snapshots' = Append(snapshots, createSnapshot(Now))
  /\ taken' = Append(taken, ReadView(Now))
  /\ last' = NoCall("createSnapshot", Len(snapshots) + 1)
  /\ delivered' = <<>>
  /\ UNCHANGED <<heap, state, watchers>>


\* The watcher's id is the number of watchers ever added (a fresh uuid)
AddWatcher(path, recursive, events) ==
  /\ Running
  /\ UNCHANGED <<aiVars, httpVars>>
  /\ found' = NoSearch
  /\ tool' = NoTool
  /\ watchers.added < MaxWatchers
  /\ watchers' = [added |-> watchers.added + 1,
                  map |-> Append(watchers.map,
                                 [id |-> watchers.added + 1, path |-> path,
                                  recursive |-> recursive, events |-> events])]
  /\ last' = NoCall("addWatcher", watchers.added + 1)
  /\ delivered' = <<>>
  /\ UNCHANGED <<heap, state, snapshots, taken>>

\* return this.watchers.delete(watcherId)
RemoveWatcher(id) ==
  /\ Running
  /\ UNCHANGED <<aiVars, httpVars>>
  /\ found' = NoSearch
  /\ tool' = NoTool
  /\ watchers' = [watchers EXCEPT !.map = SelectSeq(@, LAMBDA w : w.id # id)]
  /\ last' = [NoCall("removeWatcher", id) EXCEPT
               !.res = IF \E i \in 1..Len(watchers.map) : watchers.map[i].id = id
                         THEN "ok" ELSE "false"]
  /\ delivered' = <<>>
  /\ UNCHANGED <<heap, state, snapshots, taken>>

\* id 0 names no snapshot
RestoreSnapshot(id) ==
  /\ Finish(Call("restoreSnapshot", <<>>, <<>>, "", FALSE, id),
            restoreSnapshot(Now, snapshots, id))
  /\ UNCHANGED <<snapshots, watchers, taken>>

-----------------------------------------------------------------------------
(* StrReplaceEditorTool over the file system.  Texts are sequences of       *)
(* characters.                                                              *)

MaxEdits == 3        \* operations of the file system in one run of the tool

ToolPaths == {PA, PB}
FileTexts == {<<"a">>, <<"a", "b", "a">>}
OldStrings == {<<"a">>, <<"a", "b">>, <<"$">>}
NewStrings == {<<>>, <<"b">>, <<"b", "a", "b">>, <<"$", "&">>, <<"$", "$">>}

\* The index before the first occurrence of searchString in str, -1 when
\* there is none
indexOf(str, searchString) ==
  LET at == {k \in 0..(Len(str) - Len(searchString)) :
               SubSeq(str, k + 1, k + Len(searchString)) = searchString}
  IN IF at = {} THEN -1 ELSE CHOOSE k \in at : \A j \in at : k <= j

\* String.prototype.includes
includes(str, searchString) == indexOf(str, searchString) # -1

RECURSIVE GetSubstitution(_, _)
\* The replacement text of String.prototype.replace for a string pattern:
\* '$$' stands for '$' and '$&' for the matched text
GetSubstitution(replacement, matched) ==
  IF replacement = <<>> THEN <<>>
  ELSE IF Len(replacement) >= 2 /\ replacement[1] = "$" /\ replacement[2] = "$"
    THEN <<"$">> \o GetSubstitution(SubSeq(replacement, 3, Len(replacement)), matched)
  ELSE IF Len(replacement) >= 2 /\ replacement[1] = "$" /\ replacement[2] = "&"
    THEN matched \o GetSubstitution(SubSeq(replacement, 3, Len(replacement)), matched)
  ELSE <<Head(replacement)>> \o GetSubstitution(Tail(replacement), matched)

\* content.replace(oldStr, newStr) with strings: the first occurrence only
replace(content, oldStr, newStr) ==
  LET pos == indexOf(content, oldStr)
  IN IF pos = -1 THEN content
     ELSE SubSeq(content, 1, pos)
            \o GetSubstitution(newStr, oldStr)
            \o SubSeq(content, pos + Len(oldStr) + 1, Len(content))

\* Creates no file when readFile(path) returns; ret is whether the tool
\* answers with formatSuccess
toolCreateFile(W, path, content) ==
  IF readFile(W, path).err = ""
    THEN Return(W, FALSE)
    ELSE LET W1 == createFile(W, path, content)
         IN IF W1.err # "" THEN Return(W, FALSE) ELSE Return(W1, TRUE)

replaceString(W, path, oldStr, newStr) ==
  LET read == readFile(W, path)
  IN IF read.err # "" THEN Return(W, FALSE)
     ELSE IF ~includes(read.ret, oldStr) THEN Return(W, FALSE)
     ELSE LET W1 == updateFile(W, path, replace(read.ret, oldStr, newStr))
          IN IF W1.err # "" THEN Return(W, FALSE) ELSE Return(W1, TRUE)

\* execute(toolCall): the tool answers with a result, it does not throw
Execute(command, path, old_str, new_str, W) ==
  /\ Running
  /\ UNCHANGED <<aiVars, httpVars>>
  /\ found' = NoSearch
  /\ tool' = [called |-> TRUE, command |-> command, path |-> path,
              old_str |-> old_str, new_str |-> new_str, success |-> W.ret]
  /\ last' = [NoCall(command, 0) EXCEPT !.p = path]
  /\ heap' = W.heap
  /\ state' = StateOf(W)
  /\ delivered' = Deliver(watchers.map, W.evs)
  /\ UNCHANGED <<snapshots, watchers, taken>>

ToolCreate(path, file_text) ==
  Execute("create", path, <<>>, file_text, toolCreateFile(Now, path, file_text))

ToolStrReplace(path, old_str, new_str) ==
  Execute("str_replace", path, old_str, new_str,
          replaceString(Now, path, old_str, new_str))

VfsInit ==
  /\ heap = initializeState.heap
  /\ state = initializeState.state
  /\ snapshots = <<>>
  /\ watchers = [added |-> 0, map |-> <<>>]
  /\ delivered = <<>>
  /\ last = NoCall("new", 0)
  /\ taken = <<>>
  /\ found = NoSearch
  /\ tool = NoTool

-----------------------------------------------------------------------------
(* AIProviderManager.  A provider is known by its config; the provider     *)
(* SDKs are the environment: a call of a provider returns (with or without *)
(* usage) or throws, a health check answers true or false or throws.  The  *)
(* mock provider's generateContent never throws once initialized and its   *)
(* healthCheck always answers true.                                        *)

MaxCalls == 1        \* generateContent / generateContentStream calls in one run
MaxInFlight == 2     \* the same, where calls overlap

\* AI_PROVIDERS (google is registered like anthropic and openai)
ANTHROPIC == "anthropic"
OPENAI == "openai"
MOCK == "mock"
ProviderIds == {ANTHROPIC, OPENAI, MOCK}

\* config.id as registerProvider may be given it: "custom" is no AI_PROVIDERS id
ConfigIds == ProviderIds \cup {"custom"}

\* config.priority: <<>> when the field is missing, <<n>> otherwise
Priorities == {<<>>, <<-1>>, <<1>>}

\* The preferredProvider argument: "" is undefined (or the empty string)
Preferences == ProviderIds \cup {""}

\* response.usage.totalTokens: <<>> when the response carries no usage
Usages == {<<>>, <<3>>}

\* priority || 0
OrZero(priority) == IF priority = <<>> THEN 0 ELSE priority[1]

Registered(provs, id) == \E i \in 1..Len(provs) : provs[i].id = id

\* Map.set: a new key goes to the end, an old key keeps its place
MapSet(provs, config) ==
  IF Registered(provs, config.id)
    THEN [i \in 1..Len(provs) |-> IF provs[i].id = config.id THEN config ELSE provs[i]]
    ELSE Append(provs, config)

NewStatus ==
  [isHealthy |-> TRUE,
   requestsToday |-> 0, tokensToday |-> 0,
   requestsThisMonth |-> 0, tokensThisMonth |-> 0]

\* A comparator that sorts the other way round
compareAscending(a, b) == OrZero(a.priority) - OrZero(b.priority)

\* (a, b) => (b.getInfo().priority || 0) - (a.getInfo().priority || 0)
compare(a, b) == OrZero(b.priority) - OrZero(a.priority)

RECURSIVE Insert(_, _)
Insert(sorted, x) ==
  IF sorted = <<>> THEN <<x>>
  ELSE IF compare(Head(sorted), x) <= 0
    THEN <<Head(sorted)>> \o Insert(Tail(sorted), x)
    ELSE <<x>> \o sorted

RECURSIVE sort(_)
\* Array.prototype.sort with the comparator above: a stable sort
sort(s) ==
  IF s = <<>> THEN <<>>
  ELSE Insert(sort(SubSeq(s, 1, Len(s) - 1)), s[Len(s)])

\* A variant that falls back on the first registered provider when none is
\* healthy
getAnyProvider(provs, status, preferredProvider) ==
  IF /\ preferredProvider # ""
     /\ Registered(provs, preferredProvider)
     /\ status[preferredProvider].isHealthy
    THEN [err |-> "", id |-> preferredProvider]
    ELSE
      LET healthyProviders == sort(SelectSeq(provs, LAMBDA c : status[c.id].isHealthy))
      IN IF Len(healthyProviders) = 0
           THEN IF Len(provs) = 0
                  THEN [err |-> "No healthy AI providers available", id |-> ""]
                  ELSE [err |-> "", id |-> provs[1].id]
           ELSE [err |-> "", id |-> healthyProviders[1].id]

\* The provider id getAvailableProvider returns, or the error it throws
getAvailableProvider(provs, status, preferredProvider) ==
  IF /\ preferredProvider # ""
     /\ Registered(provs, preferredProvider)
     /\ status[preferredProvider].isHealthy
    THEN [err |-> "", id |-> preferredProvider]
    ELSE
      LET healthyProviders == sort(SelectSeq(provs, LAMBDA c : status[c.id].isHealthy))
      IN IF Len(healthyProviders) = 0
           THEN [err |-> "No healthy AI providers available", id |-> ""]
           ELSE [err |-> "", id |-> healthyProviders[1].id]

\* A variant that counts the usage on every registered provider
countOnEveryProvider(provs, status, providerId, usage) ==
  IF usage = <<>> THEN status
  ELSE [x \in DOMAIN status |->
          [status[x] EXCEPT !.requestsToday = @ + 1,
                            !.tokensToday = @ + usage[1],
                            !.requestsThisMonth = @ + 1,
                            !.tokensThisMonth = @ + usage[1]]]

\* usage is <<>> (undefined) or <<totalTokens>>
updateUsageStats(provs, status, providerId, usage) ==
  IF usage = <<>> THEN status
  ELSE IF providerId \notin DOMAIN status THEN status
  ELSE IF ~Registered(provs, providerId) THEN status
  ELSE [status EXCEPT
          ![providerId].requestsToday = @ + 1,
          ![providerId].tokensToday = @ + usage[1],
          ![providerId].requestsThisMonth = @ + 1,
          ![providerId].tokensThisMonth = @ + usage[1]]

markProviderUnhealthy(status, providerId) ==
  IF providerId \in DOMAIN status
    THEN [status EXCEPT ![providerId].isHealthy = FALSE]
    ELSE status

\* A variant that passes the preferredProvider on
KeepPreferred(preferredProvider) == preferredProvider

\* The preferredProvider of the call generateContent makes of itself in its
\* catch block: this.generateContent(messages, options)
RetryPreferred(preferredProvider) == ""

\* A call before it is made.  arg is the preferredProvider the caller passed,
\* preferred the one of the generateContent frame now running, provider the
\* provider selected, invoked the providers whose generateContent (or
\* generateContentStream) was called, failed how many of them threw, hadMock
\* whether the mock provider was registered when the call was made, usage the
\* usage of the response returned.
IdleCall ==
  [pc |-> "idle", kind |-> "", arg |-> "", preferred |-> "", provider |-> "",
   invoked |-> <<>>, failed |-> 0, hadMock |-> FALSE, error |-> "",
   usage |-> <<>>]

\* const provider = await this.getAvailableProvider(preferredProvider)
Select(call, provs, status, preferredProvider) ==
  LET sel == getAvailableProvider(provs, status, preferredProvider)
  IN IF sel.err # ""
       THEN [call EXCEPT !.pc = "rejected", !.preferred = preferredProvider,
                         !.provider = "", !.error = sel.err]
       ELSE [call EXCEPT !.pc = "selected", !.preferred = preferredProvider,
                         !.provider = sel.id]

\* A variant that enters the provider in the maps before it is initialized
RegisterBeforeInitialize(id, priority, isActive, initOk) ==
  /\ IF id \notin ProviderIds
       THEN /\ lastRegister' = "Unknown provider type"
            /\ UNCHANGED <<providers, providerStatus, defaultProvider>>
     ELSE /\ ~initOk => id # MOCK
          /\ providers' = MapSet(providers, [id |-> id, priority |-> priority])
          /\ providerStatus' =
               [x \in DOMAIN providerStatus \cup {id} |->
                  IF x = id THEN NewStatus ELSE providerStatus[x]]
          /\ defaultProvider' =
               IF isActive /\ defaultProvider = "" THEN id ELSE defaultProvider
          /\ lastRegister' = IF initOk THEN "ok" ELSE "initialize failed"
  /\ UNCHANGED <<calls, health, vfsVars, httpVars>>

\* registerProvider(config); initOk is whether provider.initialize() resolved
RegisterProvider(id, priority, isActive, initOk) ==
  /\ IF id \notin ProviderIds
       THEN /\ lastRegister' = "Unknown provider type"
            /\ UNCHANGED <<providers, providerStatus, defaultProvider>>
     ELSE IF ~initOk
       THEN /\ id # MOCK
            /\ lastRegister' = "initialize failed"
            /\ UNCHANGED <<providers, providerStatus, defaultProvider>>
     ELSE /\ providers' = MapSet(providers, [id |-> id, priority |-> priority])
          /\ providerStatus' =
               [x \in DOMAIN providerStatus \cup {id} |->
                  IF x = id THEN NewStatus ELSE providerStatus[x]]
          /\ defaultProvider' =
               IF isActive /\ defaultProvider = "" THEN id ELSE defaultProvider
          /\ lastRegister' = "ok"
  /\ UNCHANGED <<calls, health, vfsVars, httpVars>>

\* generateContent (kind "content") or generateContentStream (kind "stream")
\* is called: the provider is selected
StartCall(c, kind, preferredProvider) ==
  /\ calls[c].pc = "idle"
  /\ \A d \in 1..(c - 1) : calls[d].pc # "idle"
  /\ calls' = [calls EXCEPT ![c] =
       Select([IdleCall EXCEPT !.kind = kind, !.arg = preferredProvider,
                               !.hadMock = Registered(providers, MOCK)],
              providers, providerStatus, preferredProvider)]
  /\ lastRegister' = ""
  /\ UNCHANGED <<providers, providerStatus, defaultProvider, health, vfsVars, httpVars>>

\* provider.generateContent(messages, options), when the await of
\* getAvailableProvider resumes
InvokeProvider(c) ==
  /\ calls[c].pc = "selected"
  /\ calls' = [calls EXCEPT ![c].pc = "await",
                            ![c].invoked = Append(@, calls[c].provider)]
  /\ lastRegister' = ""
  /\ UNCHANGED <<providers, providerStatus, defaultProvider, health, vfsVars, httpVars>>

\* The provider answers (the stream ends): the usage is counted and the call
\* returns
ProviderReturns(c, usage) ==
  /\ calls[c].pc = "await"
  /\ providerStatus' =
       updateUsageStats(providers, providerStatus, calls[c].provider, usage)
  /\ calls' = [calls EXCEPT ![c].pc = "done", ![c].usage = usage]
  /\ lastRegister' = ""
  /\ UNCHANGED <<providers, defaultProvider, health, vfsVars, httpVars>>

\* The provider throws: the catch block of generateContent, or of
\* generateContentStream, which does not call itself again
ProviderThrows(c) ==
  /\ calls[c].pc = "await"
  /\ calls[c].provider # MOCK
  /\ providerStatus' = markProviderUnhealthy(providerStatus, calls[c].provider)
  /\ calls' = [calls EXCEPT ![c] =
       IF calls[c].kind = "content" /\ calls[c].preferred # ""
         THEN Select([calls[c] EXCEPT !.failed = @ + 1],
                     providers, providerStatus', RetryPreferred(calls[c].preferred))
         ELSE [calls[c] EXCEPT !.failed = @ + 1, !.pc = "rejected",
                               !.error = "provider error"]]
  /\ lastRegister' = ""
  /\ UNCHANGED <<providers, defaultProvider, health, vfsVars, httpVars>>

\* performHealthChecks: one provider's healthCheck has settled; isHealthy is
\* its answer, FALSE as well when it threw
HealthCheck(id, isHealthy) ==
  /\ Registered(providers, id)
  /\ id = MOCK => isHealthy
  /\ providerStatus' = [providerStatus EXCEPT ![id].isHealthy = isHealthy]
  /\ lastRegister' = ""
  /\ UNCHANGED <<providers, defaultProvider, calls, health, vfsVars, httpVars>>

\* No performHealthChecks call yet.  pending are the ids of the providers
\* whose healthCheck is awaited, outcome what each healthCheck that settled
\* gave ("true", "false" or "threw"), promises how the promise of each
\* provider's callback settled.
IdleHealth ==
  [pc |-> "idle", pending |-> {}, outcome |-> <<>>, promises |-> <<>>]

\* performHealthChecks() is called: the map over this.providers.entries()
\* runs every callback up to its await provider.healthCheck()
PerformHealthChecks ==
  /\ health.pc # "running"
  /\ health' = [IdleHealth EXCEPT
       !.pc = "running",
       !.pending = {providers[i].id : i \in 1..Len(providers)}]
  /\ lastRegister' = ""
  /\ UNCHANGED <<providers, providerStatus, defaultProvider, calls, vfsVars, httpVars>>

\* The healthCheck of the provider entered under id settles: the callback
\* writes the status found under id, in its try block or in its catch block
HealthCheckSettles(id, outcome) ==
  /\ health.pc = "running"
  /\ id \in health.pending
  /\ id = MOCK => outcome = "true"
  /\ providerStatus' =
       IF outcome = "threw" THEN markProviderUnhealthy(providerStatus, id)
       ELSE IF id \in DOMAIN providerStatus
         THEN [providerStatus EXCEPT ![id].isHealthy = (outcome = "true")]
         ELSE providerStatus
  /\ health' = [health EXCEPT
       !.pending = @ \ {id},
       !.outcome = [x \in DOMAIN @ \cup {id} |-> IF x = id THEN outcome ELSE @[x]],
       !.promises = [x \in DOMAIN @ \cup {id} |-> IF x = id THEN "fulfilled" ELSE @[x]]]
  /\ lastRegister' = ""
  /\ UNCHANGED <<providers, defaultProvider, calls, vfsVars, httpVars>>

\* await Promise.all(promises)
HealthChecksSettle ==
  /\ health.pc = "running"
  /\ health.pending = {}
  /\ health' = [health EXCEPT !.pc =
       IF \E x \in DOMAIN health.promises : health.promises[x] = "rejected"
         THEN "rejected" ELSE "resolved"]
  /\ lastRegister' = ""
  /\ UNCHANGED <<providers, providerStatus, defaultProvider, calls, vfsVars, httpVars>>

AiInit ==
  /\ providers = <<>>
  /\ providerStatus = <<>>
  /\ defaultProvider = ""
  /\ calls = [c \in 1..MaxInFlight |-> IdleCall]
  /\ lastRegister = ""
  /\ health = IdleHealth

-----------------------------------------------------------------------------
(* The HTTP routes.  A JSON value is a record of its type and its value;   *)
(* the value of a string is its sequence of characters.  The database      *)
(* answers one query at a time; a handler runs from one await to the next  *)
(* in one step.                                                            *)

MaxPosts == 2        \* POST /api/files requests in one run

Str(chars) == [type |-> "string", value |-> chars]
Undefined == [type |-> "undefined", value |-> <<>>]

NameInputs ==
  {Str(<<"a">>), Str(<<" ", "a">>), Str(<<"b">>), Str(<<" ">>),
   Str(<<"a", "/">>), Undefined}
ContentInputs == {Str(<<>>), Str(<<"x">>), Undefined}
ProjectInputs == {Str(<<"p">>), Str(<<"q">>), Undefined}
FileIdInputs == 1..(MaxPosts + 1)

\* The projects of the database; none is created or deleted here
Projects == {<<"p">>}

RECURSIVE trimStart(_)
trimStart(chars) ==
  IF chars # <<>> /\ Head(chars) = " " THEN trimStart(Tail(chars)) ELSE chars

RECURSIVE trimEnd(_)
trimEnd(chars) ==
  IF chars # <<>> /\ chars[Len(chars)] = " "
    THEN trimEnd(SubSeq(chars, 1, Len(chars) - 1))
    ELSE chars

\* String.prototype.trim
trim(chars) == trimEnd(trimStart(chars))

\* /[<>:"/\\|?*]/.test(name)
invalidNameChars(chars) ==
  \E i \in 1..Len(chars) :
    chars[i] \in {"<", ">", ":", "\"", "/", "\\", "|", "?", "*"}

\* A variant of the File table without its unique index
createUnconstrained(database, data) ==
  IF data.projectId \notin database.projects
    THEN [err |-> "P2003", db |-> database, ret |-> 0]
    ELSE [err |-> "", ret |-> Cardinality(database.files) + 1,
          db |-> [database EXCEPT !.files = @ \cup
                    {[id |-> Cardinality(database.files) + 1, name |-> data.name,
                      content |-> data.content, projectId |-> data.projectId]}]]

\* prisma.file.create: the table has @@unique([projectId, name]) and a
\* foreign key to Project; the id is a fresh uuid
prismaFileCreate(database, data) ==
  IF \E f \in database.files :
       f.projectId = data.projectId /\ f.name = data.name
    THEN [err |-> "P2002", db |-> database, ret |-> 0]
  ELSE IF data.projectId \notin database.projects
    THEN [err |-> "P2003", db |-> database, ret |-> 0]
  ELSE [err |-> "", ret |-> Cardinality(database.files) + 1,
        db |-> [database EXCEPT !.files = @ \cup
                  {[id |-> Cardinality(database.files) + 1, name |-> data.name,
                    content |-> data.content, projectId |-> data.projectId]}]]

\* prisma.file.update({ where: { id }, data: { content } })
prismaFileUpdate(database, id, content) ==
  IF ~\E f \in database.files : f.id = id
    THEN [err |-> "P2025", db |-> database]
    ELSE [err |-> "",
          db |-> [database EXCEPT !.files =
                    {IF f.id = id THEN [f EXCEPT !.content = content] ELSE f :
                       f \in @}]]

\* A request not yet made.  status is the HTTP status of the answer, body
\* "error" for { error: ... } and "file" for the record created, created
\* the id of that record.
IdlePost ==
  [pc |-> "idle", name |-> Undefined, content |-> Undefined,
   projectId |-> Undefined, status |-> 0, body |-> "", created |-> 0]

\* res.status(status).json(...): the request is answered
Answer(post, status, body, created) ==
  [post EXCEPT !.pc = "done", !.status = status, !.body = body,
               !.created = created]

NoResponse == [route |-> "", status |-> 0]

\* router.post('/') up to await prisma.project.findUnique
PostFile(i, name, content, projectId) ==
  /\ posts[i].pc = "idle"
  /\ \A j \in 1..(i - 1) : posts[j].pc # "idle"
  /\ posts' = [posts EXCEPT ![i] =
       LET post == [IdlePost EXCEPT !.name = name, !.content = content,
                                    !.projectId = projectId]
       IN IF name.type # "string" \/ name.value = <<>> \/ trim(name.value) = <<>>
            THEN Answer(post, 400, "error", 0)
          ELSE IF content.type # "string"
            THEN Answer(post, 400, "error", 0)
          ELSE IF projectId.type # "string" \/ projectId.value = <<>>
            THEN Answer(post, 400, "error", 0)
          ELSE IF invalidNameChars(name.value)
            THEN Answer(post, 400, "error", 0)
          ELSE [post EXCEPT !.pc = "findUnique"]]
  /\ resp' = NoResponse
  /\ UNCHANGED <<db, vfsVars, aiVars>>

\* prisma.project.findUnique answers; the handler goes on to
\* await prisma.file.create
PostProjectFound(i) ==
  /\ posts[i].pc = "findUnique"
  /\ posts' = [posts EXCEPT ![i] =
       IF posts[i].projectId.value \notin db.projects
         THEN Answer(@, 400, "error", 0)
         ELSE [@ EXCEPT !.pc = "create"]]
  /\ resp' = NoResponse
  /\ UNCHANGED <<db, vfsVars, aiVars>>

\* prisma.file.create answers or throws; the handler answers the request
PostCreated(i) ==
  /\ posts[i].pc = "create"
  /\ LET made == prismaFileCreate(db, [name |-> trim(posts[i].name.value),
                                        content |-> posts[i].content.value,
                                        projectId |-> posts[i].projectId.value])
     IN /\ db' = made.db
        /\ posts' = [posts EXCEPT ![i] =
             IF made.err # "" THEN Answer(@, 400, "error", 0)
             ELSE Answer(@, 201, "file", made.ret)]
  /\ resp' = NoResponse
  /\ UNCHANGED <<vfsVars, aiVars>>

\* router.put('/:id'): the whole handler; the id of a route parameter is a
\* string that is not empty
PutFile(id, content) ==
  /\ LET updated == prismaFileUpdate(db, id, content.value)
     IN IF content.type # "string"
          THEN /\ resp' = [route |-> "PUT /api/files/:id", id |-> id,
                            content |-> content, status |-> 400,
                            body |-> "error"]
               /\ db' = db
        ELSE IF updated.err = "P2025"
          THEN /\ resp' = [route |-> "PUT /api/files/:id", id |-> id,
                            content |-> content, status |-> 404,
                            body |-> "error"]
               /\ db' = db
        ELSE /\ resp' = [route |-> "PUT /api/files/:id", id |-> id,
                          content |-> content, status |-> 200,
                          body |-> "file"]
             /\ db' = updated.db
  /\ UNCHANGED <<posts, vfsVars, aiVars>>

StubRoutes ==
  {"POST /api/ai/chat", "GET /api/ai/providers", "GET /api/ai/health",
   "GET /api/ai/usage"}

StubMessage(route) ==
  IF route = "POST /api/ai/chat" THEN "AI chat not implemented yet"
  ELSE IF route = "GET /api/ai/providers" THEN "Get AI providers not implemented yet"
  ELSE IF route = "GET /api/ai/health" THEN "AI providers health check not implemented yet"
  ELSE "Get AI usage statistics not implemented yet"

Null == [type |-> "null", value |-> <<>>]

\* A variant of the handlers that reads req.body.messages
notImplementedReadingBody(route, body) ==
  IF body.type = "undefined"
    THEN [status |-> 500,
          json |-> [success |-> FALSE,
                    message |-> [type |-> "string", value |-> "Internal server error"],
                    data |-> Undefined]]
    ELSE [status |-> 501,
          json |-> [success |-> FALSE,
                    message |-> [type |-> "string", value |-> StubMessage(route)],
                    data |-> Null]]

\* The handlers of aiRouter: none of them reads the request
notImplemented(route, body) ==
  [status |-> 501,
   json |-> [success |-> FALSE,
             message |-> [type |-> "string", value |-> StubMessage(route)],
             data |-> Null]]

\* A request reaches a handler of aiRouter
AiRoute(route, body) ==
  /\ resp' = [route |-> route, request |-> body,
              status |-> notImplemented(route, body).status,
              json |-> notImplemented(route, body).json]
  /\ UNCHANGED <<db, posts, vfsVars, aiVars>>

HttpInit ==
  /\ db = [projects |-> Projects, files |-> {}]
  /\ posts = [i \in 1..MaxPosts |-> IdlePost]
  /\ resp = NoResponse

Init == VfsInit /\ AiInit /\ HttpInit

vars == <<vfsVars, aiVars, httpVars>>

\* The history stays within n operations
Within(n) == Len(state'.operations) <= n

\* The call succeeded and the history stays within n operations
Done(n) == last'.res = "ok" /\ Within(n)

\* Every call of the file system, returning or throwing, and the watchers
Next ==
  \/ \E p \in Paths, c \in Contents : CreateFile(p, c) /\ Within(MaxOps)
  \/ \E p \in Paths : CreateDirectory(p) /\ Within(MaxOps)
  \/ \E p \in Paths : ReadFile(p)
  \/ \E p \in Paths, c \in Contents : UpdateFile(p, c) /\ Within(MaxOps)
  \/ \E p \in Paths : DeleteFile(p) /\ Within(MaxOps)
  \/ \E p \in Paths, r \in BOOLEAN : DeleteDirectory(p, r) /\ Within(MaxOps)
  \/ \E p \in Paths, q \in Paths : Move(p, q) /\ Within(MaxOps)
  \/ \E p \in Paths, q \in Paths : CopyFile(p, q) /\ Within(MaxOps)
  \/ CreateSnapshot
  \/ \E id \in 0..MaxSnapshots : RestoreSnapshot(id)
  \/ \E p \in WatchPaths, r \in BOOLEAN, e \in WatchEvents : AddWatcher(p, r, e)
  \/ \E id \in 1..MaxWatchers : RemoveWatcher(id)

Spec == Init /\ [][Next]_vars

\* The calls that change the file system, followed only where they succeed
NextDone ==
  \/ \E p \in Paths, c \in Contents : CreateFile(p, c) /\ Done(MaxDeep)
  \/ \E p \in Paths : CreateDirectory(p) /\ Done(MaxDeep)
  \/ \E p \in Paths, c \in Contents : UpdateFile(p, c) /\ Done(MaxDeep)
  \/ \E p \in Paths : DeleteFile(p) /\ Done(MaxDeep)
  \/ \E p \in Paths, r \in BOOLEAN : DeleteDirectory(p, r) /\ Done(MaxDeep)
  \/ \E p \in Paths, q \in Paths : Move(p, q) /\ Done(MaxDeep)
  \/ CreateSnapshot
  \/ \E id \in 1..MaxSnapshots : RestoreSnapshot(id) /\ Done(MaxDeep)

SpecDone == Init /\ [][NextDone]_vars

\* The calls on files, followed only where they succeed
NextFiles ==
  \/ \E p \in FilePaths, c \in Contents : CreateFile(p, c) /\ Done(MaxFileOps)
  \/ \E p \in FilePaths, c \in Contents : UpdateFile(p, c) /\ Done(MaxFileOps)
  \/ \E p \in FilePaths : DeleteFile(p) /\ Done(MaxFileOps)
  \/ \E p \in FilePaths, q \in FilePaths : Move(p, q) /\ Done(MaxFileOps)

SpecFiles == Init /\ [][NextFiles]_vars

\* Files are created and deleted, and searched by name
NextSearch ==
  \/ \E p \in SearchPaths : CreateFile(p, "c1") /\ Done(MaxSearchOps)
  \/ \E p \in SearchPaths : DeleteFile(p) /\ Done(MaxSearchOps)
  \/ \E query \in Queries, fileTypes \in TypeFilters, caseSensitive \in BOOLEAN,
        maxResults \in {1, DefaultMaxResults} :
       SearchFiles(query, fileTypes, caseSensitive, maxResults)

SpecSearch == Init /\ [][NextSearch]_vars

\* Files are created and edited with the str_replace_editor tool
NextEditor ==
  \/ \E path \in ToolPaths, file_text \in FileTexts :
       ToolCreate(path, file_text) /\ Within(MaxEdits)
  \/ \E path \in ToolPaths, old_str \in OldStrings, new_str \in NewStrings :
       ToolStrReplace(path, old_str, new_str) /\ Within(MaxEdits)

SpecEditor == Init /\ [][NextEditor]_vars

\* The provider manager: registrations that succeed, calls, the providers'
\* answers and health checks in any order
NextAI ==
  \/ \E id \in ProviderIds, priority \in Priorities :
       RegisterProvider(id, priority, TRUE, TRUE)
  \/ \E c \in 1..MaxCalls, kind \in {"content", "stream"}, preferred \in Preferences :
       StartCall(c, kind, preferred)
  \/ \E c \in 1..MaxCalls : InvokeProvider(c)
  \/ \E c \in 1..MaxCalls, usage \in Usages : ProviderReturns(c, usage)
  \/ \E c \in 1..MaxCalls : ProviderThrows(c)
  \/ \E id \in ProviderIds, isHealthy \in BOOLEAN : HealthCheck(id, isHealthy)

SpecAI == Init /\ [][NextAI]_vars

\* generateContent calls that overlap, of a manager with up to two providers
\* that may be registered anew at any time
NextUsage ==
  \/ \E id \in {ANTHROPIC, MOCK}, priority \in {<<>>, <<1>>} :
       RegisterProvider(id, priority, TRUE, TRUE)
  \/ \E c \in 1..MaxInFlight, preferred \in {"", ANTHROPIC} :
       StartCall(c, "content", preferred)
  \/ \E c \in 1..MaxInFlight : InvokeProvider(c)
  \/ \E c \in 1..MaxInFlight, usage \in Usages : ProviderReturns(c, usage)
  \/ \E c \in 1..MaxInFlight : ProviderThrows(c)

SpecUsage == Init /\ [][NextUsage]_vars

\* Registrations of every kind, those that reject included, and health checks
NextRegister ==
  \/ \E id \in ConfigIds, priority \in Priorities, isActive \in BOOLEAN, initOk \in BOOLEAN :
       RegisterProvider(id, priority, isActive, initOk)
  \/ \E id \in ProviderIds, isHealthy \in BOOLEAN : HealthCheck(id, isHealthy)

SpecRegister == Init /\ [][NextRegister]_vars

\* performHealthChecks calls, one at a time, of a manager whose providers may
\* be registered at any time; no generateContent call is made
NextHealth ==
  \/ \E id \in ProviderIds, priority \in {<<>>, <<1>>} :
       RegisterProvider(id, priority, TRUE, TRUE)
  \/ PerformHealthChecks
  \/ \E id \in ProviderIds, outcome \in {"true", "false", "threw"} :
       HealthCheckSettles(id, outcome)
  \/ HealthChecksSettle

SpecHealth == Init /\ [][NextHealth]_vars

\* Requests to the files routes and to the AI routes, answered in any order
NextHttp ==
  \/ \E i \in 1..MaxPosts, name \in NameInputs, content \in ContentInputs,
        projectId \in ProjectInputs :
       PostFile(i, name, content, projectId)
  \/ \E i \in 1..MaxPosts : PostProjectFound(i)
  \/ \E i \in 1..MaxPosts : PostCreated(i)
  \/ \E id \in FileIdInputs, content \in ContentInputs : PutFile(id, content)
  \/ \E route \in StubRoutes, body \in ContentInputs : AiRoute(route, body)

SpecHttp == Init /\ [][NextHttp]_vars

-----------------------------------------------------------------------------
(* Properties of the virtual file system *)

\* The memory the call of a step leaves
After == World(heap', state')

\* What readFile(p) does: the content it returns or the error it throws
ReadResult(W, p) ==
  IF readFile(W, p).err # "" THEN <<"throws", readFile(W, p).err>>
  ELSE <<"returns", readFile(W, p).ret>>

\* The paths of the files, and of the directories, of the two Maps
FilePathsOf(W) == {W.heap[W.files[i]].path : i \in 1..Len(W.files)}
DirPathsOf(W) == {W.heap[W.directories[i]].path : i \in 1..Len(W.directories)}

\* path lies beneath the directory path base
Beneath(path, base) ==
  IF base = Slash THEN Len(path) > 1 /\ path[1] = "/"
  ELSE StartsWith(path, base \o Slash)

AtOrBeneath(path, base) == path = base \/ Beneath(path, base)

\* C5: after restoreSnapshot(s) succeeds, readFile returns for every path
\* exactly what it returned when createSnapshot produced s, and throws for
\* every path that had no file then.
C5_RestoreReturnsSnapshotView ==
  (last.op = "restoreSnapshot" /\ last.res = "ok")
    => ReadView(Now) = taken[last.n]

\* The failures C6 lists, call being the call and its outcome and W the memory
\* it was made on
ListedFailure(call, W) ==
  \/ call.op = "createFile" /\ call.res = "File already exists"
  \/ call.op = "createDirectory" /\ call.res = "Directory already exists"
  \/ call.op \in {"readFile", "updateFile"} /\ call.res = "File not found"
  \/ call.op = "copyFile" /\ call.res \in {"Source file not found", "File already exists"}
  \/ call.op = "move" /\ call.res = "Source not found"
  \/ call.op \in {"deleteFile", "deleteDirectory"} /\ call.res = "false"
  \/ /\ call.op = "deleteDirectory"
     /\ call.res = "Cannot delete root directory"
     /\ getDirectoryByPath(W, call.p) = W.rootId
  \/ /\ call.op = "deleteDirectory"
     /\ ~call.rec
     /\ call.res = "Directory is not empty"
  \/ call.op = "restoreSnapshot" /\ call.res = "Snapshot not found"

\* C6: a call that fails in one of the listed ways leaves the files, the
\* directories, their children lists (all of the heap), the operation history
\* and the snapshots as they were, and runs no watcher callback.
C6_FailedCallChangesNothing ==
  [][ListedFailure(last', Now)
       => /\ heap' = heap
          /\ state' = state
          /\ snapshots' = snapshots
          /\ delivered' = <<>>]_vars

\* C6: a copyFile onto an existing target has failed while a watcher of every
\* event under '/' was registered and the history was not empty
C6_Witness ==
  /\ last.op = "copyFile"
  /\ last.res = "File already exists"
  /\ Len(state.operations) > 0
  /\ \E i \in 1..Len(watchers.map) :
        watchers.map[i].path = Slash /\ watchers.map[i].recursive

\* What C7 promises of a successful move, pre and post being the memory before
\* and after it
MoveRelocates(pre, post, call) ==
  LET src == normalizePath(call.p)
      dst == normalizePath(call.q)
      file == getFileByPath(pre, src)
  IN IF file # None
       THEN /\ ReadResult(post, dst) = <<"returns", pre.heap[file].content>>
            /\ ReadResult(post, src) = <<"throws", "File not found">>
       ELSE /\ \A p \in FilePathsOf(pre) :
                 Beneath(p, src)
                   => ReadResult(post, dst \o SliceFrom(p, Len(src)))
                        = ReadResult(pre, p)
            /\ \A p \in FilePathsOf(post) \cup DirPathsOf(post) :
                 ~AtOrBeneath(p, src)
            /\ \A p \in FilePathsOf(pre) :
                 ~AtOrBeneath(p, src) => ReadResult(post, p) = ReadResult(pre, p)

\* C7: after move(src, dst) succeeds the moved file, or every file of the
\* moved directory, reads at its new path with its content, nothing is left at
\* or under src, and the files outside read as before, whatever dst names.
\* (Stated for paths written with a leading '/', a source other than the root
\* and a destination other than src and outside src.)
C7_MoveRelocates ==
  [][(/\ last'.op = "move"
      /\ last'.res = "ok"
      /\ Head(last'.p) = "/" /\ Head(last'.q) = "/"
      /\ normalizePath(last'.p) # Slash
      /\ ~AtOrBeneath(normalizePath(last'.q), normalizePath(last'.p)))
       => MoveRelocates(Now, After, last')]_vars

\* C8: after deleteDirectory(p, true) returns true no file and no directory
\* has the path p or a path beneath p, every file outside p reads as before
\* and every directory outside p is still there.
C8_RecursiveDeleteRemovesSubtree ==
  [][(last'.op = "deleteDirectory" /\ last'.rec /\ last'.res = "ok")
       => LET p == normalizePath(last'.p)
          IN /\ \A x \in FilePathsOf(After) \cup DirPathsOf(After) :
                  ~AtOrBeneath(x, p)
             /\ \A x \in FilePathsOf(Now) :
                  ~AtOrBeneath(x, p) => ReadResult(After, x) = ReadResult(Now, x)
             /\ \A x \in DirPathsOf(Now) :
                  ~AtOrBeneath(x, p) => x \in DirPathsOf(After)]_vars

\* The ancestor directories of a normalized path: '/' and the proper prefixes
\* that end where a '/' follows
Ancestors(np) ==
  {Slash} \cup {SubSeq(np, 1, k - 1) : k \in {j \in 2..Len(np) : np[j] = "/"}}

\* The shortest of the paths of S longer than a: the next path component
NextComponent(a, S) ==
  CHOOSE x \in S : Len(x) > Len(a) /\ \A y \in S : Len(y) > Len(a) => Len(x) <= Len(y)

\* C9: createFile(p) and createDirectory(p) create the missing ancestor
\* directories of p and no other directory, and afterwards each ancestor is
\* there and has the next component of the path among its children.
C9_CreatesMissingAncestors ==
  [][(last'.op \in {"createFile", "createDirectory"} /\ last'.res = "ok")
       => LET np == normalizePath(last'.p)
              missing == {a \in Ancestors(np) \ {np} : getDirectoryByPath(Now, a) = None}
              created == {heap'[i].path :
                            i \in {j \in Len(heap) + 1..Len(heap') : heap'[j].isDir}}
              chain == (Ancestors(np) \ {np}) \cup {np}
          IN /\ created = missing \cup (IF last'.op = "createDirectory" THEN {np} ELSE {})
             /\ \A a \in Ancestors(np) \ {np} :
                  /\ getDirectoryByPath(After, a) # None
                  /\ \E i \in 1..Len(heap'[getDirectoryByPath(After, a)].children) :
                       heap'[heap'[getDirectoryByPath(After, a)].children[i]].path
                         = NextComponent(a, chain)]_vars

\* C10: after createFile(p, c) or updateFile(p, c) succeeds readFile(p)
\* returns c, after deleteFile(p) returns true readFile(p) throws 'File not
\* found', and readFile of every other path that had a file returns what it
\* returned before the call.
C10_ReadAfterWrite ==
  [][(last'.op \in {"createFile", "updateFile", "deleteFile"} /\ last'.res = "ok")
       => /\ last'.op \in {"createFile", "updateFile"}
               => ReadResult(After, last'.p) = <<"returns", last'.c>>
          /\ last'.op = "deleteFile"
               => ReadResult(After, last'.p) = <<"throws", "File not found">>
          /\ \A x \in FilePathsOf(Now) \ {normalizePath(last'.p)} :
               ReadResult(After, x) = ReadResult(Now, x)]_vars

-----------------------------------------------------------------------------
(* Properties of the provider manager *)

\* config.priority || 0 of a registered provider
PriorityOf(provs, id) ==
  OrZero(provs[CHOOSE i \in 1..Len(provs) : provs[i].id = id].priority)

HealthyIds(provs, status) ==
  {id \in ProviderIds : Registered(provs, id) /\ status[id].isHealthy}

\* sel is a healthy registered provider of maximal priority
IsTopHealthy(provs, status, sel) ==
  /\ sel \in HealthyIds(provs, status)
  /\ \A other \in HealthyIds(provs, status) :
       PriorityOf(provs, sel) >= PriorityOf(provs, other)

\* The step is the first provider of call c throwing
FirstFailure(c) ==
  /\ calls[c].kind = "content"
  /\ calls[c].pc = "await"
  /\ calls[c].failed = 0
  /\ calls'[c].failed = 1

\* C1: when the provider selected for a generateContent call throws while
\* another registered provider is marked healthy, the failed provider is marked
\* unhealthy and the call goes on, instead of rejecting, with the healthy
\* provider of highest priority that remains, whether or not a
\* preferredProvider was passed.
C1_FailoverOnFailure ==
  [][\A c \in 1..MaxCalls :
       (FirstFailure(c) /\ HealthyIds(providers, providerStatus) \ {calls[c].provider} # {})
         => /\ ~providerStatus'[calls[c].provider].isHealthy
            /\ calls'[c].pc = "selected"
            /\ IsTopHealthy(providers', providerStatus', calls'[c].provider)]_vars

\* C2: one generateContent call invokes a provider at most twice, and when the
\* second provider throws as well the call rejects with its error.
C2_AtMostOneRetry ==
  \A c \in 1..MaxCalls :
    /\ Len(calls[c].invoked) <= 2
    /\ calls[c].failed = 2
         => calls[c].pc = "rejected" /\ calls[c].error = "provider error"

\* C2: a call was retried, its second provider threw too and the call
\* rejected, while a healthy provider was still registered
C2_Witness ==
  \E c \in 1..MaxCalls :
    /\ calls[c].kind = "content"
    /\ calls[c].pc = "rejected"
    /\ Len(calls[c].invoked) = 2
    /\ calls[c].failed = 2
    /\ HealthyIds(providers, providerStatus) # {}

\* C3: a generateContent call made while the mock provider is registered does
\* not reject.
C3_MockAnswers ==
  \A c \in 1..MaxCalls :
    (calls[c].kind = "content" /\ calls[c].hadMock) => calls[c].pc # "rejected"

\* The step selects a provider for call c
Selects(c) == calls'[c].pc = "selected" /\ calls[c].pc # "selected"

\* C4: the provider selected for generateContent or generateContentStream is
\* the preferred one when that is registered and healthy, whatever the
\* priorities; otherwise it is a healthy registered provider whose priority
\* (0 when missing) is at least that of every healthy registered provider.
C4_SelectionRule ==
  [][\A c \in 1..MaxCalls :
       Selects(c)
         => IF /\ calls'[c].preferred # ""
               /\ Registered(providers', calls'[c].preferred)
               /\ providerStatus'[calls'[c].preferred].isHealthy
              THEN calls'[c].provider = calls'[c].preferred
              ELSE IsTopHealthy(providers', providerStatus', calls'[c].provider)]_vars

\* C4: a stream call whose preferred provider is registered but unhealthy has
\* selected a provider without priority over a healthy one of priority -1
C4_Witness ==
  \E c \in 1..MaxCalls :
    /\ calls[c].pc = "selected"
    /\ calls[c].kind = "stream"
    /\ calls[c].preferred # ""
    /\ Registered(providers, calls[c].preferred)
    /\ ~providerStatus[calls[c].preferred].isHealthy
    /\ \E i \in 1..Len(providers) :
         providers[i].id = calls[c].provider /\ providers[i].priority = <<>>
    /\ \E other \in HealthyIds(providers, providerStatus) :
         PriorityOf(providers, other) = -1

-----------------------------------------------------------------------------
(* Properties of the watchers *)

\* The event type of a successful createFile, updateFile or createDirectory
EventOf(op) ==
  IF op = "createFile" THEN "file_created"
  ELSE IF op = "updateFile" THEN "file_updated"
  ELSE "directory_created"

\* The callbacks of the last call that watcher id got with the type and path
CallbacksOf(id, type, path) ==
  {k \in 1..Len(delivered') :
     /\ delivered'[k].watcher = id
     /\ delivered'[k].type = type
     /\ delivered'[k].path = path}

\* The callback runs after the change: a read of the path sees the new file
\* with the content written, or the new directory
SeesChange(call, sees) ==
  IF call.op = "createDirectory" THEN sees.dir # None
  ELSE sees.file # None /\ sees.content = call.c

\* C11: after a successful createFile, updateFile or createDirectory each
\* registered recursive watcher at the affected path or at an ancestor of it,
\* whose events contain the event's type, was called exactly once with that
\* type and the affected (normalized) path, and saw the change applied; and
\* only registered watchers are called.
C11_WatchersNotified ==
  [][/\ (last'.op \in {"createFile", "updateFile", "createDirectory"} /\ last'.res = "ok")
          => \A i \in 1..Len(watchers.map) :
               (/\ watchers.map[i].recursive
                /\ EventOf(last'.op) \in watchers.map[i].events
                /\ watchers.map[i].path \in
                     Ancestors(normalizePath(last'.p)) \cup {normalizePath(last'.p)})
                 => /\ Cardinality(CallbacksOf(watchers.map[i].id, EventOf(last'.op),
                                               normalizePath(last'.p))) = 1
                    /\ \A k \in CallbacksOf(watchers.map[i].id, EventOf(last'.op),
                                            normalizePath(last'.p)) :
                         SeesChange(last', delivered'[k].sees)
     /\ \A k \in 1..Len(delivered') :
          \E i \in 1..Len(watchers'.map) : watchers'.map[i].id = delivered'[k].watcher]_vars

-----------------------------------------------------------------------------
(* Properties of searchFiles *)

\* The name contains the query
Contains(name, query, caseSensitive) ==
  \E k \in 0..Len(name) : OccursAt(name, query, k, caseSensitive)

\* The files searchFiles is to return
Matching(W, options) ==
  {f \in {W.files[i] : i \in 1..Len(W.files)} :
     /\ Contains(W.heap[f].name, options.query, options.caseSensitive)
     /\ options.fileTypes # <<>>
          => inferFileType(W.heap[f].name) \in options.fileTypes[1]}

ResultFiles == {found.results[i].file : i \in 1..Len(found.results)}

\* C12: searchFiles with includeContent false returns only files whose name
\* contains the query and whose type passes the filter, and as long as it
\* returns fewer than maxResults results it returns all of them.
C12_SearchByName ==
  found.searched
    => /\ ResultFiles \subseteq Matching(Now, found.options)
       /\ Len(found.results) < found.options.maxResults
            => ResultFiles = Matching(Now, found.options)

--------------------------------------------------------------------------
\* Usage statistics

UsageOf(status) ==
  <<status.requestsToday, status.tokensToday,
    status.requestsThisMonth, status.tokensThisMonth>>

\* No provider's usage counters change in this step
UsageUnchanged ==
  /\ DOMAIN providerStatus' = DOMAIN providerStatus
  /\ \A q \in DOMAIN providerStatus :
       UsageOf(providerStatus'[q]) = UsageOf(providerStatus[q])

\* C13: a generateContent call that returns a response carrying usage adds 1
\* to the requestsToday and requestsThisMonth of the provider that served it
\* and the response's totalTokens to its tokensToday and tokensThisMonth, and
\* leaves the counters of every other provider as they were; a call that
\* rejects changes no usage counter.  Calls may overlap.
C13_UsageCounted ==
  [][\A c \in 1..MaxInFlight :
       /\ ( /\ calls[c].kind = "content"
            /\ calls[c].pc = "await"
            /\ calls'[c].pc = "done"
            /\ calls'[c].usage # <<>> )
          => /\ DOMAIN providerStatus' = DOMAIN providerStatus
             /\ calls[c].provider \in DOMAIN providerStatus
             /\ UsageOf(providerStatus'[calls[c].provider]) =
                  <<providerStatus[calls[c].provider].requestsToday + 1,
                    providerStatus[calls[c].provider].tokensToday
                      + calls'[c].usage[1],
                    providerStatus[calls[c].provider].requestsThisMonth + 1,
                    providerStatus[calls[c].provider].tokensThisMonth
                      + calls'[c].usage[1]>>
             /\ \A q \in DOMAIN providerStatus \ {calls[c].provider} :
                  UsageOf(providerStatus'[q]) = UsageOf(providerStatus[q])
       /\ ( /\ calls[c].kind = "content"
            /\ calls[c].pc # "rejected"
            /\ calls'[c].pc = "rejected" )
          => UsageUnchanged]_vars

\* The second call, made while the first was awaiting its provider, has
\* returned with usage and the first is still in flight
C13_Witness ==
  /\ calls[1].kind = "content" /\ calls[1].pc = "await"
  /\ calls[2].kind = "content" /\ calls[2].pc = "done"
  /\ calls[2].usage # <<>>
  /\ calls[2].provider = calls[1].provider
  /\ providerStatus[calls[2].provider].requestsToday = 1
  /\ providerStatus[calls[2].provider].tokensToday = calls[2].usage[1]

--------------------------------------------------------------------------
\* No healthy provider

\* C14: when no registered provider is marked healthy (none registered
\* included), generateContent and generateContentStream fail with
\* 'No healthy AI providers available'; no provider is invoked and no
\* provider's health status or usage counter changes.
C14_NoHealthyProvider ==
  [][\A c \in 1..MaxCalls :
       ( /\ calls[c].pc = "idle"
         /\ calls'[c].pc # "idle"
         /\ HealthyIds(providers, providerStatus) = {} )
       => /\ calls'[c].pc = "rejected"
          /\ calls'[c].error = "No healthy AI providers available"
          /\ calls'[c].invoked = <<>>
          /\ calls'[c].failed = 0
          /\ providerStatus' = providerStatus
          /\ providers' = providers]_vars

\* A generateContentStream call has failed so while providers were
\* registered, all marked unhealthy
C14_Witness ==
  /\ calls[1].kind = "stream"
  /\ calls[1].pc = "rejected"
  /\ calls[1].error = "No healthy AI providers available"
  /\ calls[1].invoked = <<>>
  /\ Len(providers) = 2
  /\ HealthyIds(providers, providerStatus) = {}

--------------------------------------------------------------------------
\* Rejected registration

\* C15: when registerProvider rejects, for an unknown provider id or because
\* the provider's initialize throws, the registered providers, every
\* provider's health status and usage counters, and the default provider are
\* as they were before the call.
C15_RejectedRegistrationChangesNothing ==
  [][lastRegister' \in {"Unknown provider type", "initialize failed"}
       => /\ providers' = providers
          /\ providerStatus' = providerStatus
          /\ defaultProvider' = defaultProvider]_vars

\* A registration has been rejected because initialize threw, in a manager
\* that holds two providers, one of them unhealthy, and a default provider
C15_Witness ==
  /\ lastRegister = "initialize failed"
  /\ Len(providers) = 2
  /\ \E id \in ProviderIds :
       Registered(providers, id) /\ ~providerStatus[id].isHealthy
  /\ defaultProvider # ""

--------------------------------------------------------------------------
\* Health checks

\* C16: when performHealthChecks resolves, no generation call being in
\* flight, the isHealthy of each registered provider equals the outcome of
\* that provider's own healthCheck, false when it threw; a healthCheck that
\* settles changes the status of no other provider, and performHealthChecks
\* does not reject.
C16_HealthFollowsCheck ==
  [][/\ ( /\ health.pc = "running"
          /\ health'.pc # "running"
          /\ \A c \in 1..MaxInFlight : calls[c].pc \in {"idle", "done", "rejected"} )
        => /\ health'.pc = "resolved"
           /\ \A id \in DOMAIN health.outcome :
                Registered(providers, id)
                  => providerStatus'[id].isHealthy = (health.outcome[id] = "true")
     /\ \A id \in ProviderIds :
          (id \in health.pending /\ id \notin health'.pending)
            => \A q \in DOMAIN providerStatus \ {id} :
                 providerStatus'[q] = providerStatus[q]]_vars

--------------------------------------------------------------------------
\* str_replace_editor

\* C17: after a successful str_replace command with (path, old_str, new_str)
\* the content of the file at path contains new_str and does not contain
\* old_str.
C17_ReplacedEverywhere ==
  (tool.called /\ tool.command = "str_replace" /\ tool.success)
    => /\ includes(readFile(Now, tool.path).ret, tool.new_str)
       /\ ~includes(readFile(Now, tool.path).ret, tool.old_str)

--------------------------------------------------------------------------
\* The files routes

\* C18: PUT /api/files/:id with the empty string as content is answered
\* with HTTP 400 and a body that has an error property, and the stored
\* content of the file stays as it was.
C18_EmptyContentRejected ==
  [][( /\ resp'.route = "PUT /api/files/:id"
        /\ resp'.content = Str(<<>>)
        /\ \E f \in db.files : f.id = resp'.id )
       => /\ resp'.status = 400
          /\ resp'.body = "error"
          /\ db' = db]_vars

\* The request of post i names a file that the File table holds
NameStored(database, post) ==
  /\ post.name.type = "string"
  /\ post.projectId.type = "string"
  /\ \E f \in database.files :
       f.projectId = post.projectId.value /\ f.name = trim(post.name.value)

\* C19: whatever POST /api/files requests are made, overlapping ones
\* included, no two stored files of one project have the same name; a
\* request whose trimmed name is the name of a file stored for its project is
\* answered with HTTP 400 and creates no record.
C19_NamesUniqueInProject ==
  [][/\ \A f \in db'.files : \A g \in db'.files :
          (f.projectId = g.projectId /\ f.name = g.name) => f = g
     /\ \A i \in 1..MaxPosts :
          ( /\ posts[i].pc # "done"
            /\ posts'[i].pc = "done"
            /\ NameStored(db, posts'[i]) )
          => /\ posts'[i].status = 400
             /\ posts'[i].body = "error"
             /\ db' = db]_vars

\* Two requests for the same project whose names differ only in leading
\* blanks: the first created the file, the second got 400
C19_Witness ==
  /\ posts[1].name = Str(<<" ", "a">>) /\ posts[1].status = 201
  /\ posts[2].name = Str(<<"a">>) /\ posts[2].status = 400
  /\ posts[2].content.type = "string"
  /\ posts[1].projectId = posts[2].projectId
  /\ Cardinality(db.files) = 1

--------------------------------------------------------------------------
\* The AI routes

\* C20: a request that reaches a handler of POST /api/ai/chat,
\* GET /api/ai/providers, GET /api/ai/health or GET /api/ai/usage is
\* answered with HTTP 501 and a body with success = false, a string message
\* and data = null, whatever its body, and no state of the server changes.
C20_StubsAnswer501 ==
  [][resp'.route \in StubRoutes
       => /\ resp'.status = 501
          /\ resp'.json.success = FALSE
          /\ resp'.json.message.type = "string"
          /\ resp'.json.data = Null
          /\ db' = db
          /\ posts' = posts
          /\ UNCHANGED <<vfsVars, aiVars>>]_vars

\* A chat request without a body has been answered while the File table
\* holds a file
C20_Witness ==
  /\ resp.route = "POST /api/ai/chat"
  /\ resp.request = Undefined
  /\ resp.status = 501
  /\ db.files # {}

--------------------------------------------------------------------------
\* The directory tree

RECURSIVE ReachesRoot(_, _)
\* Following parentId from the object id arrives at state.rootId within n
\* steps
ReachesRoot(id, n) ==
  IF id = state.rootId THEN TRUE
  ELSE IF id = None \/ n = 0 THEN FALSE
  ELSE ReachesRoot(heap[id].parentId, n - 1)

\* C21: in every reachable state exactly one directory has the path '/',
\* state.rootId names it and it has no parent, and following parentId from
\* any file or directory arrives at it: no operation removes, relocates or
\* disconnects the root, and no directory is its own ancestor.
C21_TreeRootedAtSlash ==
  /\ InSeq(state.rootId, state.directories)
  /\ heap[state.rootId].path = Slash
  /\ heap[state.rootId].parentId = None
  /\ \A i \in 1..Len(state.directories) :
       heap[state.directories[i]].path = Slash
         => state.directories[i] = state.rootId
  /\ \A i \in 1..Len(state.directories) :
       ReachesRoot(state.directories[i], Len(heap))
  /\ \A i \in 1..Len(state.files) :
       ReachesRoot(state.files[i], Len(heap))

==========================================================================
